---- MODULE Spec2Model ----
(***************************************************************************)
(* Kampai (src/kampai.py): two Client processes rendezvous over UDP by     *)
(* exchanging "kampai_peer_establish:" + public key datagrams, then run a  *)
(* send thread (get_input) and a receive loop (run) over a NaCl Box.       *)
(*                                                                         *)
(* Bytes are integers 0..255 and byte strings are sequences of them.  The  *)
(* NaCl Box is modelled symbolically: the shared key of Box(sk, pk) is the *)
(* unordered pair of the two public keys, a ciphertext is a record of its  *)
(* key, nonce and message and of what its authenticator covers, and        *)
(* decrypt checks the authenticator.  A ciphertext's bytes are taken not   *)
(* to begin with the establish tag (the first 24 bytes of a Box ciphertext *)
(* are a random nonce).  The transport is UDP: a datagram in flight may    *)
(* never be received, and a datagram sent to an unbound port is lost.      *)
(***************************************************************************)
EXTENDS Integers, Sequences, FiniteSets, TLC

\* ------------------------------------------------------------------ bounds
\* calls of input() by the get_input threads of the clients, in all
MaxLines == 1
\* iterations of the run() receive loops of the clients, in all
MaxRecv == 2
\* datagrams of the third party the clients receive, in all
MaxIntr == 2

\* --------------------------------------------------------------- constants
\* sdata[-32:], and the size of a NaCl public key
KeySize == 32
\* sock.recvfrom(4096) / sock.recv(4096)
RecvMax == 4096

\* b"kampai_peer_establish:"
Tag ==
  <<107, 97, 109, 112, 97, 105, 95, 112, 101, 101, 114, 95,
    101, 115, 116, 97, 98, 108, 105, 115, 104, 58>>

\* the bytes bytes.strip() removes: \t \n \v \f \r and space
Whitespace == {9, 10, 11, 12, 13, 32}

\* ---------------------------------------------------------------- processes
Clients == {"A", "B"}
ThirdParty == "C"

\* Behaviour.creator: A was started with 'create', B with 'join'
creator(p) == p = "A"

\* Behaviour.target_host/target_port: B joins A
target(p) == IF p = "B" THEN "A" ELSE "none"

\* ------------------------------------------------------------- byte strings
RECURSIVE lstrip(_)
lstrip(s) ==
  IF s # <<>> /\ Head(s) \in Whitespace THEN lstrip(Tail(s)) ELSE s

RECURSIVE rstrip(_)
rstrip(s) ==
  IF s # <<>> /\ s[Len(s)] \in Whitespace
  THEN rstrip(SubSeq(s, 1, Len(s) - 1))
  ELSE s

\* bytes.strip()
strip(s) == rstrip(lstrip(s))

\* bytes.startswith(prefix)
startswith(s, prefix) ==
  Len(s) >= Len(prefix) /\ SubSeq(s, 1, Len(prefix)) = prefix

\* s[-n:]
lastbytes(s, n) ==
  IF Len(s) <= n THEN s ELSE SubSeq(s, Len(s) - n + 1, Len(s))

\* the first n bytes of a datagram, as recvfrom(n) returns them
firstbytes(s, n) ==
  IF Len(s) <= n THEN s ELSE SubSeq(s, 1, n)

\* ---------------------------------------------------------------------- keys
\* PrivateKey.generate() draws the secret key at random.  The secrets of the
\* model are numbers; secret s has the public key Pub(s), 32 bytes that end in
\* TrailWs[s] bytes of 0x20.  No two parties draw the same secret: A draws 1
\* or 2, B draws 3 or 4, and secret 5 is the third party's.
TrailWs == <<0, 1, 0, 23, 0>>
Secrets(p) == IF p = "A" THEN {1, 2} ELSE {3, 4}

\* the public keys of the secrets
PubKeys ==
  [s \in DOMAIN TrailWs |->
     [i \in 1..KeySize |-> IF i <= KeySize - TrailWs[s] THEN 200 + s ELSE 32]]

\* bytes(PrivateKey.public_key)
Pub(s) == PubKeys[s]

NoKey == <<>>
NoBox == {}

\* PublicKey(public_key=key) raises ValueError unless key has 32 bytes
PublicKeyOk(key) == Len(key) = KeySize

\* a key agreement whose result depends on which side computes it
Box_ordered(sk, pk) == {<<1>> \o Pub(sk), <<2>> \o pk}

\* Box(self_skey, peer_pkey): the shared key both sides of a key agreement
\* compute, Box(a, Pub(b)) = Box(b, Pub(a))
Box(sk, pk) == {Pub(sk), pk}

\* ------------------------------------------------------------------ payloads
NoData == [kind |-> "none"]
Raw(b) == [kind |-> "raw", bytes |-> b]

\* Box.encrypt(plaintext) with the fresh nonce n: the key k, the nonce n and
\* the message m of the datagram, and the nonce tn and the message tm its
\* authenticator was computed over
encrypt(bx, n, m) ==
  [kind |-> "box", k |-> bx, n |-> n, m |-> m, tn |-> n, tm |-> m]

\* a decrypt that does not check the authenticator
decrypt_noauth(bx, ct) ==
  IF ct.kind = "box" /\ bx # NoBox /\ ct.k = bx
  THEN [ok |-> TRUE, m |-> ct.m]
  ELSE [ok |-> FALSE, m |-> <<>>]

\* Box.decrypt(ciphertext): the plaintext, or CryptoError
decrypt(bx, ct) ==
  IF /\ ct.kind = "box"
     /\ bx # NoBox
     /\ ct.k = bx
     /\ ct.tn = ct.n
     /\ ct.tm = ct.m
  THEN [ok |-> TRUE, m |-> ct.m]
  ELSE [ok |-> FALSE, m |-> <<>>]

\* the bytes Box.encrypt puts before the encrypted message: a nonce of 24
\* bytes and an authenticator of 16
BoxOverhead == 40

\* the number of bytes of a datagram
size(pl) ==
  IF pl.kind = "raw" THEN Len(pl.bytes)
  ELSE IF pl.kind = "box" THEN BoxOverhead + Len(pl.m)
  ELSE 0

\* a recv that hands over a datagram whatever its size
received_whole(pl) == pl

\* what recvfrom(4096) and recv(4096) hand over of a datagram: its first 4096
\* bytes (of a ciphertext, the nonce, the authenticator and the message less
\* its tail)
received(pl) ==
  IF pl.kind = "raw" THEN Raw(firstbytes(pl.bytes, RecvMax))
  ELSE IF pl.kind = "box"
  THEN [pl EXCEPT !.m = firstbytes(pl.m, RecvMax - BoxOverhead)]
  ELSE pl

\* data.strip() of a received datagram (no ciphertext begins with the tag)
sdataOf(pl) == IF pl.kind = "raw" THEN strip(pl.bytes) ELSE <<>>

\* ---------------------------------------------------------------------- text
\* str.encode("utf-8") of a text of code points below 0x800
RECURSIVE encode(_)
encode(text) ==
  IF text = <<>> THEN <<>>
  ELSE LET cp == Head(text) IN
       (IF cp < 128 THEN <<cp>> ELSE <<192 + (cp \div 64), 128 + (cp % 64)>>)
         \o encode(Tail(text))

\* bytes.decode("utf-8"): the text, or UnicodeDecodeError.  One- and two-byte
\* forms; 0xC0, 0xC1 and 0xF5..0xFF never occur in UTF-8.  Every byte is an
\* ASCII byte, a lead byte with a continuation byte after it or a continuation
\* byte with a lead byte before it; the text has one code point for each byte
\* that is not a continuation byte.
decode(b) ==
  LET cont(i) == b[i] >= 128 /\ b[i] <= 191
      lead(i) == b[i] >= 194 /\ b[i] <= 223
      wellformed ==
        \A i \in 1..Len(b) :
          \/ b[i] < 128
          \/ lead(i) /\ i < Len(b) /\ cont(i + 1)
          \/ cont(i) /\ i > 1 /\ lead(i - 1)
      starts == SelectSeq([i \in 1..Len(b) |-> i], LAMBDA i : ~cont(i))
  IN IF wellformed
     THEN [ok |-> TRUE,
           text |-> [k \in 1..Len(starts) |->
                       LET i == starts[k]
                       IN IF b[i] < 128 THEN b[i]
                          ELSE (b[i] - 192) * 64 + (b[i + 1] - 128)]]
     ELSE [ok |-> FALSE, text |-> <<>>]

\* the lines input() returns in the model: "hé", one character of one UTF-8
\* byte and one of two
Lines == {<<104, 233>>}

VARIABLES
  phase,       \* per client: "INIT", "AWAIT_PEER_KEY", "ESTABLISHED", "CRASHED"
  self_skey,   \* Client.self_skey (0 before PrivateKey.generate())
  peer_host,   \* Client.peer_host, Client.peer_port: the peer address
  peer_pkey,   \* Client.peer_pkey
  box,         \* Client.box
  data,        \* __init__'s local data: the last datagram of the wait loop
  address,     \* __init__'s local address: its sender
  ciphertext,  \* run's local ciphertext: the last datagram of the receive loop
  outcome,     \* run's last iteration: "none", "except" or "else"
  recvd,       \* number of iterations of run's loop
  display,     \* the texts run wrote to stdout
  outbox,      \* the lines get_input read, each with the datagram sent for it
  tx,          \* every datagram the client passed to sock.sendto
  net,         \* datagrams in flight
  intr,        \* number of datagrams of the third party received
  ended        \* -1 while get_input runs (or has not started); once input()
               \* has raised EOFError, the value recvd had then

vars ==
  <<phase, self_skey, peer_host, peer_pkey, box, data, address, ciphertext,
    outcome, recvd, display, outbox, tx, net, intr, ended>>

Init ==
  /\ phase = [p \in Clients |-> "INIT"]
  /\ self_skey = [p \in Clients |-> 0]
  /\ peer_host = [p \in Clients |-> "none"]
  /\ peer_pkey = [p \in Clients |-> NoKey]
  /\ box = [p \in Clients |-> NoBox]
  /\ data = [p \in Clients |-> NoData]
  /\ address = [p \in Clients |-> "none"]
  /\ ciphertext = [p \in Clients |-> NoData]
  /\ outcome = [p \in Clients |-> "none"]
  /\ recvd = [p \in Clients |-> 0]
  /\ display = [p \in Clients |-> <<>>]
  /\ outbox = [p \in Clients |-> <<>>]
  /\ tx = [p \in Clients |-> <<>>]
  /\ net = {}
  /\ intr = 0
  /\ ended = [p \in Clients |-> -1]

\* a socket is bound at dst: the datagram is queued there; otherwise it is lost
Bound(dst) == dst \in Clients /\ phase[dst] \in {"AWAIT_PEER_KEY", "ESTABLISHED"}

\* sock.sendto(payload, dst) by src, for each of the datagrams dgs = <<[dst, payload]>>
Sent(src, dgs) ==
  {[src |-> src, dst |-> dgs[i].dst, payload |-> dgs[i].payload] :
     i \in {j \in DOMAIN dgs : Bound(dgs[j].dst)}}

\* the establish datagram of a client with secret key sk
Establish(sk) == Raw(Tag \o Pub(sk))

\* ------------------------------------------------------------- third party
\* Any host that can reach a client's port.  It has the key pair of secret 5,
\* sees every datagram the clients send and sends from its own address.
ShortKey == <<7, 7, 7, 7, 7, 7, 7, 7, 7, 7>>

\* byte strings it makes up: untagged, whitespace before the tag, the tag
\* alone, a well-formed establish datagram, a short key, an over-long key
RawMenu ==
  { Raw(<<120>>),
    Raw(<<32>> \o Tag \o Pub(5)),
    Raw(Tag),
    Raw(Tag \o Pub(5)),
    Raw(Tag \o ShortKey),
    Raw(Tag \o <<9>> \o Pub(5)) }

\* plaintexts it encrypts: valid UTF-8 and a byte that is never UTF-8
ForgedPlain == {<<111, 107>>, <<255>>}

\* a plaintext whose ciphertext is one byte too long for recv(4096)
Oversize == [i \in 1..(RecvMax - BoxOverhead + 1) |-> 97]

\* ciphertexts it makes with its own secret key and the public key dst sent
\* out; the over-long one for a client whose peer it has become
ForgeMenu(dst) ==
  IF \E i \in DOMAIN tx[dst] : tx[dst][i].payload = Establish(self_skey[dst])
  THEN {encrypt(Box(5, Pub(self_skey[dst])), 1, m) :
          m \in ForgedPlain
                  \cup IF box[dst] = Box(5, Pub(self_skey[dst])) THEN {Oversize}
                       ELSE {}}
  ELSE {}

\* a captured ciphertext with something of it changed: the nonce, or the body
Altered(pl) ==
  IF pl.kind = "box"
  THEN {[pl EXCEPT !.n = pl.n + 1]}
         \cup {[pl EXCEPT !.m = m] : m \in ForgedPlain \ {pl.m}}
  ELSE {}

\* the datagrams the clients have sent so far
Captured == UNION {{tx[q][i].payload : i \in DOMAIN tx[q]} : q \in Clients}

\* what it sends a client that waits for a key: made-up byte strings and
\* captured datagrams as they are
HandshakeMenu(p) == RawMenu \cup Captured

\* what it sends a client in its receive loop: arbitrary bytes, its own
\* ciphertexts, captured datagrams (establish datagrams and ciphertexts) as
\* they are or altered
RunMenu(p) ==
  {Raw(<<120>>)} \cup ForgeMenu(p) \cup Captured
    \cup UNION {Altered(pl) : pl \in Captured}

\* what the third party can have arrive at p's socket now
ThirdPartyDatagrams(p) ==
  IF intr < MaxIntr
  THEN {[src |-> ThirdParty, dst |-> p, payload |-> pl] :
          pl \in IF phase[p] = "ESTABLISHED" THEN RunMenu(p) ELSE HandshakeMenu(p)}
  ELSE {}

\* the datagrams the next recvfrom of p can return
Arrivals(p) == {d \in net : d.dst = p} \cup ThirdPartyDatagrams(p)

\* an acceptance test that also holds a joiner to its target address
Acceptable_targetOnly(p, sdata, addr) ==
  startswith(sdata, Tag) /\ (creator(p) \/ addr = target(p))

\* the condition of line 129 on the stripped datagram sdata received from addr
Acceptable(p, sdata, addr) == startswith(sdata, Tag)

\* a reply on acceptance that only a creator sends
AcceptReply_creatorOnly(p, addr) ==
  IF creator(p)
  THEN <<[dst |-> addr, payload |-> Establish(self_skey[p])]>>
  ELSE <<>>

\* the datagrams the wait loop transmits on accepting a datagram from addr
AcceptReply(p, addr) == <<[dst |-> addr, payload |-> Establish(self_skey[p])]>>

\* a wait loop that goes on after it accepted
waitingAfterAccept_stillTrue == TRUE

\* the value of waiting after the accepting iteration (waiting = False)
waitingAfterAccept == FALSE

\* Client.__init__ up to the wait loop: bind, generate the key pair and, in
\* 'join' mode, send the establish datagram to the target
Start(p) ==
  /\ phase[p] = "INIT"
  /\ \E s \in Secrets(p) :
       LET dgs == IF creator(p) THEN <<>>
                  ELSE <<[dst |-> target(p), payload |-> Establish(s)]>>
       IN /\ self_skey' = [self_skey EXCEPT ![p] = s]
          /\ tx' = [tx EXCEPT ![p] = @ \o dgs]
          /\ net' = net \cup Sent(p, dgs)
  /\ phase' = [phase EXCEPT ![p] = "AWAIT_PEER_KEY"]
  /\ UNCHANGED <<peer_host, peer_pkey, box, data, address, ciphertext, outcome,
                 recvd, display, outbox, intr, ended>>

\* the body of the wait loop of Client.__init__ for the datagram d
onDatagram(p, d) ==
  LET pl == received(d.payload)
      sdata == sdataOf(pl)
      key == lastbytes(sdata, KeySize)
      accept == Acceptable(p, sdata, d.src)
      keyok == PublicKeyOk(key)
      dgs == IF accept /\ keyok THEN AcceptReply(p, d.src) ELSE <<>>
  IN /\ data' = [data EXCEPT ![p] = pl]
     /\ address' = [address EXCEPT ![p] = d.src]
     /\ peer_host' = IF accept THEN [peer_host EXCEPT ![p] = d.src] ELSE peer_host
     /\ peer_pkey' = IF accept /\ keyok THEN [peer_pkey EXCEPT ![p] = key]
                     ELSE peer_pkey
     /\ box' = IF accept /\ keyok
               THEN [box EXCEPT ![p] = Box(self_skey[p], key)]
               ELSE box
     /\ tx' = [tx EXCEPT ![p] = @ \o dgs]
     /\ net' = (net \ {d}) \cup Sent(p, dgs)
     /\ phase' = [phase EXCEPT ![p] =
                    IF ~accept THEN "AWAIT_PEER_KEY"
                    ELSE IF ~keyok THEN "CRASHED"
                    ELSE IF waitingAfterAccept THEN "AWAIT_PEER_KEY"
                    ELSE "ESTABLISHED"]
     /\ intr' = IF d.src = ThirdParty THEN intr + 1 ELSE intr
     /\ UNCHANGED <<self_skey, ciphertext, outcome, recvd, display, outbox,
                    ended>>

\* a wait loop whose recvfrom times out, after which a joiner sends its
\* establish datagram again
HandshakeRecv_timeout(p) ==
  /\ phase[p] = "AWAIT_PEER_KEY"
  /\ \/ \E d \in Arrivals(p) : onDatagram(p, d)
     \/ LET dgs == IF creator(p) THEN <<>>
                   ELSE <<[dst |-> target(p), payload |-> Establish(self_skey[p])]>>
        IN /\ tx' = [tx EXCEPT ![p] = @ \o dgs]
           /\ net' = net \cup Sent(p, dgs)
           /\ UNCHANGED <<phase, self_skey, peer_host, peer_pkey, box, data,
                          address, ciphertext, outcome, recvd, display, outbox,
                          intr, ended>>

\* the wait loop of Client.__init__: recvfrom returns a datagram
HandshakeRecv(p) ==
  /\ phase[p] = "AWAIT_PEER_KEY"
  /\ \E d \in Arrivals(p) : onDatagram(p, d)

\* a flow that starts while the client still waits for its peer's key
flowsStarted_early(p) == phase[p] \in {"AWAIT_PEER_KEY", "ESTABLISHED"}

\* main: client.run(), which starts both flows, is called when Client.__init__
\* has returned
flowsStarted(p) == phase[p] = "ESTABLISHED"

\* the budgets used so far: calls of input() that returned a line or raised
\* EOFError, and iterations of the receive loops
LinesRead ==
  Len(outbox["A"]) + Len(outbox["B"])
    + Cardinality({p \in Clients : ended[p] # -1})
Iterations == recvd["A"] + recvd["B"]

\* a send flow that sends to the address the client was started with
sendAddress_target(p) == target(p)

\* the address get_input sends to: (self.peer_host, self.peer_port)
sendAddress(p) == peer_host[p]

\* one iteration of Client.get_input: read a line, encrypt it, send it
get_input(p) ==
  /\ flowsStarted(p)
  /\ ended[p] = -1
  /\ LinesRead < MaxLines
  /\ \E line \in Lines :
       LET encrypted == encrypt(box[p], Len(outbox[p]) + 1, encode(line))
           dgs == <<[dst |-> sendAddress(p), payload |-> encrypted]>>
       IN /\ outbox' = [outbox EXCEPT ![p] =
                          Append(@, [line |-> line, dgram |-> encrypted])]
          /\ tx' = [tx EXCEPT ![p] = @ \o dgs]
          /\ net' = net \cup Sent(p, dgs)
  /\ UNCHANGED <<phase, self_skey, peer_host, peer_pkey, box, data, address,
                 ciphertext, outcome, recvd, display, intr, ended>>

\* an EOFError that ends the process and not only the thread it was raised in
afterEOFError_exit(ph) == "CRASHED"

\* the state of the process, from the state ph, after EOFError ended the
\* thread input_mgr: the main thread goes on
afterEOFError(ph) == ph

\* Client.get_input when the input is exhausted: input() raises EOFError,
\* nothing catches it, the thread input_mgr ends
EndOfInput(p) ==
  /\ flowsStarted(p)
  /\ ended[p] = -1
  /\ LinesRead < MaxLines
  /\ ended' = [ended EXCEPT ![p] = recvd[p]]
  /\ phase' = [phase EXCEPT ![p] = afterEOFError(@)]
  /\ UNCHANGED <<self_skey, peer_host, peer_pkey, box, data, address,
                 ciphertext, outcome, recvd, display, outbox, tx, net, intr>>

\* a receive loop without the try: the exception ends the process
afterException_crash == "CRASHED"

\* the state of the process after run's except clause (pass: the loop goes on)
afterException == "ESTABLISHED"

\* a receive loop that drops the datagram it took in last when it comes again
plaintext_noreplay(p, d) ==
  LET ct == received(d.payload)
      dec == decrypt(box[p], ct)
  IN IF dec.ok /\ ct # ciphertext[p] THEN decode(dec.m)
     ELSE [ok |-> FALSE, text |-> <<>>]

\* a receive loop that drops what does not come from the peer address
plaintext_peerOnly(p, d) ==
  LET dec == decrypt(box[p], received(d.payload))
  IN IF dec.ok /\ d.src = peer_host[p] THEN decode(dec.m)
     ELSE [ok |-> FALSE, text |-> <<>>]

\* run's plaintext for the datagram d, self.box.decrypt(ciphertext)
\* .decode("utf-8"): the text, or an exception
plaintext(p, d) ==
  LET dec == decrypt(box[p], received(d.payload))
  IN IF dec.ok THEN decode(dec.m) ELSE [ok |-> FALSE, text |-> <<>>]

\* a receive loop that takes the sender of a datagram for its peer
peerAfterRecv_sender(p, d) == d.src

\* the peer address after an iteration of run: sock.recv does not return the
\* sender, and nothing assigns peer_host
peerAfterRecv(p, d) == peer_host[p]

\* the body of the receive loop of Client.run for the datagram d
onCiphertext(p, d) ==
  LET ct == received(d.payload)
      txt == plaintext(p, d)
  IN /\ net' = net \ {d}
     /\ peer_host' = [peer_host EXCEPT ![p] = peerAfterRecv(p, d)]
     /\ ciphertext' = [ciphertext EXCEPT ![p] = ct]
     /\ recvd' = [recvd EXCEPT ![p] = @ + 1]
     /\ IF txt.ok
        THEN /\ display' = [display EXCEPT ![p] = Append(@, txt.text)]
             /\ outcome' = [outcome EXCEPT ![p] = "else"]
             /\ UNCHANGED phase
        ELSE /\ outcome' = [outcome EXCEPT ![p] = "except"]
             /\ phase' = [phase EXCEPT ![p] = afterException]
             /\ UNCHANGED display
     /\ intr' = IF d.src = ThirdParty THEN intr + 1 ELSE intr
     /\ UNCHANGED <<self_skey, peer_pkey, box, data, address, outbox, tx,
                    ended>>

\* the receive loop of Client.run: recv returns a datagram
run(p) ==
  /\ flowsStarted(p)
  /\ Iterations < MaxRecv
  /\ \E d \in Arrivals(p) : onCiphertext(p, d)

Next ==
  \/ \E p \in Clients : Start(p)
  \/ \E p \in Clients : HandshakeRecv(p)
  \/ \E p \in Clients : get_input(p)
  \/ \E p \in Clients : EndOfInput(p)
  \/ \E p \in Clients : run(p)

Spec == Init /\ [][Next]_vars

\* ------------------------------------------------------------------ claims
StartsWithTag(pl) == pl.kind = "raw" /\ startswith(pl.bytes, Tag)

\* a datagram exactly of the wire format: the tag and 32 more bytes
WireFormat(pl) == StartsWithTag(pl) /\ Len(pl.bytes) = Len(Tag) + KeySize

\* the 32 bytes after the tag
WireKey(pl) == SubSeq(pl.bytes, Len(Tag) + 1, Len(Tag) + KeySize)

Other(p) == IF p = "A" THEN "B" ELSE "A"

\* the establish datagrams p has transmitted
EstablishSent(p) == SelectSeq(tx[p], LAMBDA dg : dg.payload.kind = "raw")

\* p holds q's address and public key, and the channel made of them
Holds(p, q) ==
  /\ phase[p] = "ESTABLISHED"
  /\ peer_host[p] = q
  /\ peer_pkey[p] = Pub(self_skey[q])
  /\ box[p] = Box(self_skey[p], Pub(self_skey[q]))

\* C1: with one creator, one joiner and no datagram of a third party received,
\* once both clients are ESTABLISHED each holds the other's address and public
\* key and the channel of its own secret key and the other's public key.
C1_EachHoldsTheOther ==
  (intr = 0 /\ phase["A"] = "ESTABLISHED" /\ phase["B"] = "ESTABLISHED")
    => (Holds("A", "B") /\ Holds("B", "A"))

\* C2: a client whose wait loop last received a datagram that does not start
\* with the tag is still in AWAIT_PEER_KEY, has no peer address, key or channel
\* and has transmitted nothing since it started.
C2_UntaggedIsDiscarded ==
  \A p \in Clients :
    (data[p] # NoData /\ ~StartsWithTag(data[p])) =>
      /\ phase[p] = "AWAIT_PEER_KEY"
      /\ peer_host[p] = "none"
      /\ peer_pkey[p] = NoKey
      /\ box[p] = NoBox
      /\ Len(tx[p]) = IF creator(p) THEN 0 ELSE 1

\* C3: no datagram received in the wait loop terminates the process with an
\* error: no client is ever in the crashed state.
C3_HandshakeNeverErrors == \A p \in Clients : phase[p] # "CRASHED"

\* C4: a client whose wait loop received the tag followed by a 32-byte key K is
\* ESTABLISHED with K as the peer's public key and the channel made with K.
C4_StoresTheKeySent ==
  \A p \in Clients :
    WireFormat(data[p]) =>
      /\ phase[p] = "ESTABLISHED"
      /\ peer_pkey[p] = WireKey(data[p])
      /\ box[p] = Box(self_skey[p], WireKey(data[p]))

\* the peer descriptor and the channel of p
Descriptor(p) == <<peer_host[p], peer_pkey[p], box[p]>>

\* C5: the peer key and the channel are unset until the client is ESTABLISHED
\* and set from then on; they are written only by the step that makes the
\* client ESTABLISHED, the address only by a step of the wait loop, and once
\* the client is ESTABLISHED no step changes the address, the key or the
\* channel.
C5_DescriptorWrittenOnce ==
  /\ [](\A p \in Clients :
          /\ phase[p] \in {"INIT", "AWAIT_PEER_KEY"} => Descriptor(p) = <<"none", NoKey, NoBox>>
          /\ phase[p] = "CRASHED" => (peer_pkey[p] = NoKey /\ box[p] = NoBox)
          /\ phase[p] = "ESTABLISHED" =>
               (peer_host[p] # "none" /\ peer_pkey[p] # NoKey /\ box[p] # NoBox))
  /\ [][\A p \in Clients :
          /\ phase[p] = "ESTABLISHED" => Descriptor(p)' = Descriptor(p)
          /\ <<peer_pkey[p], box[p]>>' # <<peer_pkey[p], box[p]>> =>
               (phase[p] = "AWAIT_PEER_KEY" /\ phase'[p] = "ESTABLISHED")
          /\ peer_host'[p] # peer_host[p] => phase[p] = "AWAIT_PEER_KEY"]_vars

\* C5 witness: an ESTABLISHED client's receive loop has taken in a well-formed
\* establish datagram of somebody who is not its peer.
C5_Witness ==
  \E p \in Clients :
    /\ phase[p] = "ESTABLISHED"
    /\ recvd[p] > 0
    /\ WireFormat(ciphertext[p])
    /\ peer_pkey[p] # WireKey(ciphertext[p])

\* C6 as stated: a joiner that is ESTABLISHED has transmitted exactly one
\* establish datagram, the one it sent on starting.
C6_JoinerSendsOneEstablish ==
  \A p \in Clients :
    (~creator(p) /\ phase[p] = "ESTABLISHED") => Len(EstablishSent(p)) = 1

\* C6 amended: a client of either role transmits its establish datagram to the
\* sender's address when it accepts, so an ESTABLISHED creator has sent exactly
\* one establish datagram (to its peer address) and an ESTABLISHED joiner
\* exactly two (to its target on starting, to its peer address on accepting);
\* while it waits, a client has sent only what it sent on starting.
C6_EstablishSentOnAccept ==
  \A p \in Clients :
    LET own == Establish(self_skey[p])
        first == IF creator(p) THEN <<>>
                 ELSE <<[dst |-> target(p), payload |-> own]>>
    IN /\ phase[p] = "AWAIT_PEER_KEY" => tx[p] = first
       /\ phase[p] = "ESTABLISHED" =>
            EstablishSent(p) = first \o <<[dst |-> peer_host[p], payload |-> own]>>

\* C6 witness: a joiner is ESTABLISHED with a peer that is not its target, so
\* its second establish datagram went to the sender's address.
C6_Witness ==
  \E p \in Clients :
    /\ ~creator(p)
    /\ phase[p] = "ESTABLISHED"
    /\ peer_host[p] # target(p)
    /\ Len(EstablishSent(p)) = 2

\* C7: a waiting client of either role has not yet received a datagram that
\* (stripped) starts with the tag, whatever its source; an ESTABLISHED client's
\* peer is the sender of the datagram that ended its wait, and the peer key
\* the last 32 bytes of it: nothing received later has replaced them.
C7_FirstTaggedDatagramWins ==
  \A p \in Clients :
    /\ phase[p] = "AWAIT_PEER_KEY" => ~startswith(sdataOf(data[p]), Tag)
    /\ phase[p] = "ESTABLISHED" =>
         /\ startswith(sdataOf(data[p]), Tag)
         /\ peer_host[p] = address[p]
         /\ peer_pkey[p] = lastbytes(sdataOf(data[p]), KeySize)

\* C7 witness: the third party's establish datagram reached p first and p is
\* ESTABLISHED with the third party's address and key, although the other
\* client's establish datagram reached it afterwards.
C7_Witness ==
  \E p \in Clients :
    /\ phase[p] = "ESTABLISHED"
    /\ peer_host[p] = ThirdParty
    /\ peer_pkey[p] = Pub(5)
    /\ phase[Other(p)] # "INIT"
    /\ ciphertext[p] = Establish(self_skey[Other(p)])

\* run's plaintext for the datagram ct: the decoded text, if there is one
Plaintext(p, ct) ==
  LET dec == decrypt(box[p], ct)
  IN IF dec.ok THEN decode(dec.m) ELSE [ok |-> FALSE, text |-> <<>>]

\* C8: an iteration of the receive loop on a datagram that does not decrypt, or
\* decrypts to invalid UTF-8, displays nothing, transmits nothing, changes no
\* session state and leaves the loop running; an iteration on a datagram that
\* decrypts and decodes displays its text, however many were dropped before.
C8_BadDatagramsDropped ==
  [][\A p \in Clients :
       recvd'[p] = recvd[p] + 1 =>
         IF Plaintext(p, ciphertext'[p]).ok
         THEN display'[p] = Append(display[p], Plaintext(p, ciphertext'[p]).text)
         ELSE /\ display' = display
              /\ tx' = tx
              /\ net' \subseteq net
              /\ <<self_skey, peer_host, peer_pkey, box>>'
                   = <<self_skey, peer_host, peer_pkey, box>>
              /\ phase' = phase]_vars

\* C8 witness: p dropped a datagram and displayed the one after it.
C8_Witness ==
  \E p \in Clients :
    /\ recvd[p] = 2
    /\ Len(display[p]) = 1
    /\ outcome[p] = "else"

\* C9: when two clients hold each other's address and key, a datagram the
\* send flow of one produced for a line, taken in unaltered by the receive
\* loop of the other, is displayed there as exactly that line.
C9_LineArrivesAsSent ==
  \A p \in Clients :
    \A i \in DOMAIN outbox[Other(p)] :
      (/\ Holds(p, Other(p))
       /\ Holds(Other(p), p)
       /\ recvd[p] > 0
       /\ ciphertext[p] = outbox[Other(p)][i].dgram) =>
        /\ outcome[p] = "else"
        /\ display[p] # <<>>
        /\ display[p][Len(display[p])] = outbox[Other(p)][i].line

\* C9 witness: a line with a two-byte character has crossed from one client to
\* the other.
C9_Witness ==
  \E p \in Clients :
    /\ Holds(p, Other(p))
    /\ Holds(Other(p), p)
    /\ outbox[Other(p)] # <<>>
    /\ ciphertext[p] = outbox[Other(p)][1].dgram
    /\ display[p] = <<outbox[Other(p)][1].line>>
    /\ \E j \in DOMAIN display[p][1] : display[p][1][j] > 127

\* C10: the receive loop displays a text only for a datagram that is, as it
\* stands, a ciphertext made under the channel of its own secret key and its
\* peer's public key; a ciphertext of another channel or an altered one ends
\* in the except clause.
C10_OnlyOwnChannelDisplayed ==
  \A p \in Clients :
    outcome[p] = "else" =>
      /\ ciphertext[p].kind = "box"
      /\ ciphertext[p] =
           encrypt(Box(self_skey[p], peer_pkey[p]), ciphertext[p].n, ciphertext[p].m)

\* C10 witness: p took in an altered copy of a ciphertext made for its channel
\* and displayed nothing.
C10_Witness ==
  \E p \in Clients :
    \E q \in Clients :
      \E i \in DOMAIN outbox[q] :
        /\ outbox[q][i].dgram.k = box[p]
        /\ ciphertext[p] \in Altered(outbox[q][i].dgram)
        /\ outcome[p] = "except"
        /\ display[p] = <<>>

\* the ciphertexts p has transmitted
DataSent(p) == SelectSeq(tx[p], LAMBDA dg : dg.payload.kind = "box")

\* C11: a client that is not ESTABLISHED has read no line, encrypted and
\* transmitted no ciphertext, taken no datagram into its receive loop and
\* displayed nothing; a client that has done any of these has its peer
\* address, peer key and channel set.
C11_FlowsStartWhenEstablished ==
  \A p \in Clients :
    /\ phase[p] # "ESTABLISHED" =>
         /\ outbox[p] = <<>>
         /\ DataSent(p) = <<>>
         /\ ended[p] = -1
         /\ recvd[p] = 0
         /\ ciphertext[p] = NoData
         /\ display[p] = <<>>
    /\ (outbox[p] # <<>> \/ DataSent(p) # <<>> \/ recvd[p] > 0 \/ display[p] # <<>>) =>
         (peer_host[p] # "none" /\ peer_pkey[p] # NoKey /\ box[p] # NoBox)

\* C11 witness: one client is ESTABLISHED and has sent a line and taken in a
\* datagram while the other still waits for a key.
C11_Witness ==
  \E p \in Clients :
    /\ phase[p] = "ESTABLISHED"
    /\ DataSent(p) # <<>>
    /\ recvd[p] > 0
    /\ phase[Other(p)] = "AWAIT_PEER_KEY"

\* C12: a waiting client stops waiting only in a step in which its wait loop
\* received a datagram that starts with the tag; while it goes on waiting it
\* transmits nothing (the joiner's establish datagram is not sent again); a
\* waiting client with no datagram in flight to it goes on waiting in every
\* step in which no datagram of the third party is received; and when both
\* clients wait with nothing in flight, no step changes anything unless a
\* third party's datagram is received.
C12_NoTimeoutNoRetransmission ==
  [][/\ \A p \in Clients :
          phase[p] = "AWAIT_PEER_KEY" =>
            /\ phase'[p] # "AWAIT_PEER_KEY" =>
                 (startswith(sdataOf(data'[p]), Tag) /\ address'[p] # "none")
            /\ phase'[p] = "AWAIT_PEER_KEY" => tx'[p] = tx[p]
            /\ ({d \in net : d.dst = p} = {} /\ intr' = intr) =>
                 phase'[p] = "AWAIT_PEER_KEY"
     /\ ((\A p \in Clients : phase[p] = "AWAIT_PEER_KEY") /\ net = {} /\ intr' = intr) =>
          (phase' = phase /\ tx' = tx /\ net' = {})]_vars

\* C12 witness: the joiner sent its establish datagram before the creator was
\* bound; both wait, nothing is in flight and no third party has sent anything.
C12_Witness ==
  /\ phase["A"] = "AWAIT_PEER_KEY"
  /\ phase["B"] = "AWAIT_PEER_KEY"
  /\ tx["B"] = <<[dst |-> "A", payload |-> Establish(self_skey["B"])]>>
  /\ net = {}
  /\ intr = 0

C14_ReplayIsDisplayedAgain ==
  [][\A p \in Clients :
       (/\ recvd'[p] = recvd[p] + 1
        /\ outcome[p] = "else"
        /\ ciphertext'[p] = ciphertext[p]) =>
         /\ outcome'[p] = "else"
         /\ display[p] # <<>>
         /\ display'[p] = Append(display[p], display[p][Len(display[p])])]_vars

\* C14 witness: one ciphertext was taken in twice and its text is displayed
\* twice.
C14_Witness ==
  \E p \in Clients :
    /\ recvd[p] = 2
    /\ ciphertext[p].kind = "box"
    /\ Len(display[p]) = 2
    /\ display[p][1] = display[p][2]

\* C15: no step taken while a client is ESTABLISHED, whether of its send flow,
\* of its receive loop or of the other client, changes its key pair, its peer
\* address, its peer key or its channel, or unbinds its socket.
C15_FlowsWriteNoSessionState ==
  [][\A p \in Clients :
       phase[p] = "ESTABLISHED" =>
         /\ self_skey'[p] = self_skey[p]
         /\ peer_host'[p] = peer_host[p]
         /\ peer_pkey'[p] = peer_pkey[p]
         /\ box'[p] = box[p]
         /\ Bound(p)']_vars

\* C15 witness: a client has sent a line and its receive loop has run twice,
\* the last time on a datagram of a host that is not its peer.
C15_Witness ==
  \E p \in Clients :
    /\ outbox[p] # <<>>
    /\ recvd[p] = 2
    /\ peer_host[p] = Other(p)
    /\ ciphertext[p] \in ForgeMenu(p)

\* C16: the receive loop never holds more than 4096 bytes of a datagram; a
\* ciphertext made of a message too long for that is cut, ends in the except
\* clause and leaves the client running, and no text displayed is as long as
\* such a message.
C16_OversizeIsDropped ==
  \A p \in Clients :
    /\ size(ciphertext[p]) <= RecvMax
    /\ (ciphertext[p].kind = "box" /\ BoxOverhead + Len(ciphertext[p].tm) > RecvMax) =>
         /\ Len(ciphertext[p].m) < Len(ciphertext[p].tm)
         /\ outcome[p] = "except"
         /\ phase[p] = "ESTABLISHED"
    /\ \A i \in DOMAIN display[p] : BoxOverhead + Len(display[p][i]) <= RecvMax

\* C16 witness: a client took in a ciphertext of 4097 bytes made under its own
\* channel, held 4096 bytes of it and displayed nothing.
C16_Witness ==
  \E p \in Clients :
    /\ ciphertext[p].kind = "box"
    /\ ciphertext[p].k = box[p]
    /\ Len(ciphertext[p].tm) = RecvMax - BoxOverhead + 1
    /\ size(ciphertext[p]) = RecvMax
    /\ outcome[p] = "except"
    /\ display[p] = <<>>

\* C17: a client whose send flow has ended is still ESTABLISHED, and the step
\* in which the send flow ends changes nothing of the receive loop: what it
\* last took in, its outcome, what is displayed, what is in flight.
C17_SendFlowEndsAlone ==
  /\ [](\A p \in Clients :
          ended[p] # -1 => (phase[p] = "ESTABLISHED" /\ ended[p] <= recvd[p]))
  /\ [][\A p \in Clients :
          (ended[p] = -1 /\ ended'[p] # -1) =>
            /\ phase' = phase
            /\ <<ciphertext, outcome, recvd, display, net>>'
                 = <<ciphertext, outcome, recvd, display, net>>]_vars

\* C17 witness: after its send flow ended, a client's receive loop took in a
\* datagram and displayed its text.
C17_Witness ==
  \E p \in Clients :
    /\ ended[p] # -1
    /\ recvd[p] > ended[p]
    /\ outcome[p] = "else"
    /\ display[p] # <<>>

\* C18: a creator never has transmitted more than one establish datagram, a
\* joiner never more than two, and no step taken while a client is
\* ESTABLISHED adds one, whatever its receive loop takes in.
C18_HandshakeTrafficBounded ==
  /\ [](\A p \in Clients :
          Len(EstablishSent(p)) <= IF creator(p) THEN 1 ELSE 2)
  /\ [][\A p \in Clients :
          phase[p] = "ESTABLISHED" => EstablishSent(p)' = EstablishSent(p)]_vars

\* C18 witness: the receive loop of an ESTABLISHED joiner, which has sent its
\* two establish datagrams, took in a well-formed establish datagram.
C18_Witness ==
  \E p \in Clients :
    /\ ~creator(p)
    /\ phase[p] = "ESTABLISHED"
    /\ Len(EstablishSent(p)) = 2
    /\ Len(tx[p]) = 2
    /\ recvd[p] > 0
    /\ WireFormat(ciphertext[p])

\* C19: an iteration of the receive loop of a client whose peer is not the
\* third party, on a datagram sent from the third party's address that
\* decrypts and decodes under the client's channel, displays its text.
C19_SourceIsNotChecked ==
  [][\A p \in Clients :
       (/\ recvd'[p] = recvd[p] + 1
        /\ intr' = intr + 1
        /\ peer_host[p] # ThirdParty
        /\ Plaintext(p, ciphertext'[p]).ok) =>
         /\ outcome'[p] = "else"
         /\ display'[p] = Append(display[p], Plaintext(p, ciphertext'[p]).text)]_vars

\* C19 witness: a client whose peer is the other client displays a text
\* although the other client has sent none: the datagram came from the third
\* party's address.
C19_Witness ==
  \E p \in Clients :
    /\ Holds(p, Other(p))
    /\ outbox[Other(p)] = <<>>
    /\ intr > 0
    /\ outcome[p] = "else"
    /\ display[p] # <<>>

====
